---------------------------- MODULE Spec2Model ----------------------------
(***************************************************************************)
(* NZC session data collection portal (src/app.py): the session validator, *)
(* the sessions store with its create / update / delete / list handlers,   *)
(* the photos of a session with their upload / list / delete handlers and  *)
(* the files under uploads/photos, and the 7-day statistics query.         *)
(*                                                                         *)
(* Text is modelled as a sequence of one-character strings, so that        *)
(* strip(), len(), int(), float(), strptime(), strftime() and SQLite's     *)
(* text comparison are computed on the characters, as the program does.    *)
(***************************************************************************)
EXTENDS Integers, Sequences, FiniteSets, TLC

(***************************************************************************)
(* Bounds of the model.                                                    *)
(***************************************************************************)
\* number of calendar days the wall clock may advance after start-up
MaxDays == 2
\* number of sessions that may be created on top of the five sample rows
MaxCreates == 1
\* the same, where sessions are created again after a deletion
MaxRecreates == 2
\* number of stored file names the server may draw
MaxFiles == 2

(***************************************************************************)
(* Characters.                                                             *)
(***************************************************************************)
\* the characters used in the model, in ASCII order
Alphabet ==
  <<" ","'","+","-",".","0","1","2","3","4","5","6","7","8","9",
    "A","B","C","D","E","F","G","H","I","J","K","L","M","N","O","P","Q","R",
    "S","T","U","V","W","X","Y","Z","_",
    "a","b","c","d","e","f","g","h","i","j","k","l","m","n","o","p","q","r",
    "s","t","u","v","w","x","y","z">>

\* position of a character in the collating order (BINARY collation)
Ord(c) == CHOOSE i \in 1..Len(Alphabet) : Alphabet[i] = c

Digit == <<"0","1","2","3","4","5","6","7","8","9">>
IsDigit(c) == \E i \in 1..10 : Digit[i] = c
DigitVal(c) == (CHOOSE i \in 1..10 : Digit[i] = c) - 1
IsLetter(c) == Ord(c) >= Ord("A") /\ c # "_"
IsSpace(c) == c = " "

\* n copies of the character c
Rep(c, n) == [i \in 1..n |-> c]

(***************************************************************************)
(* Python values: a JSON payload maps each field name to a string, an int, *)
(* a float (held in ten-thousandths), null, or is missing the key.         *)
(***************************************************************************)
S(chars) == [t |-> "str", s |-> chars, n |-> 0]
I(k) == [t |-> "int", s |-> <<>>, n |-> k]
F(q) == [t |-> "float", s |-> <<>>, n |-> q]
None == [t |-> "none", s |-> <<>>, n |-> 0]
Absent == [t |-> "absent", s |-> <<>>, n |-> 0]

\* ten-thousandths per unit of a float
FloatScale == 10000

\* data.get(field)
Get(data, field) == IF data[field] = Absent THEN None ELSE data[field]
\* data.get(field, 0)
GetOr0(data, field) == IF data[field] = Absent THEN I(0) ELSE data[field]

\* bool(x)
Truthy(x) ==
  CASE x.t = "str" -> x.s # <<>>
    [] x.t = "int" -> x.n # 0
    [] x.t = "float" -> x.n # 0
    [] OTHER -> FALSE

\* str.strip()
RECURSIVE LStrip(_)
LStrip(s) == IF s # <<>> /\ IsSpace(Head(s)) THEN LStrip(Tail(s)) ELSE s
RECURSIVE RStrip(_)
RStrip(s) ==
  IF s # <<>> /\ IsSpace(s[Len(s)]) THEN RStrip(SubSeq(s, 1, Len(s) - 1)) ELSE s
Strip(s) == RStrip(LStrip(s))

\* str(x).strip() == ''
StrIsBlank(x) == x.t = "str" /\ Strip(x.s) = <<>>

\* value of a run of decimal digits
RECURSIVE DigitsVal(_)
DigitsVal(s) ==
  IF s = <<>> THEN 0
  ELSE DigitsVal(SubSeq(s, 1, Len(s) - 1)) * 10 + DigitVal(s[Len(s)])

AllDigits(s) == s # <<>> /\ \A i \in 1..Len(s) : IsDigit(s[i])

\* int(x): [ok |-> TRUE, n |-> value], or ok = FALSE with the exception raised
PyInt(x) ==
  CASE x.t = "int" -> [ok |-> TRUE, n |-> x.n, exc |-> ""]
    [] x.t = "float" ->
         [ok |-> TRUE, exc |-> "",
          n |-> IF x.n >= 0 THEN x.n \div FloatScale
                ELSE -((-x.n) \div FloatScale)]
    [] x.t = "str" ->
         LET s == Strip(x.s)
             signed == s # <<>> /\ Head(s) \in {"-", "+"}
             body == IF signed THEN Tail(s) ELSE s
         IN  IF AllDigits(body)
             THEN [ok |-> TRUE, exc |-> "",
                   n |-> IF signed /\ Head(s) = "-" THEN -DigitsVal(body)
                         ELSE DigitsVal(body)]
             ELSE [ok |-> FALSE, n |-> 0, exc |-> "ValueError"]
    [] OTHER -> [ok |-> FALSE, n |-> 0, exc |-> "TypeError"]

\* float(x), in ten-thousandths
PyFloat(x) ==
  CASE x.t = "int" -> [ok |-> TRUE, n |-> x.n * FloatScale, exc |-> ""]
    [] x.t = "float" -> [ok |-> TRUE, n |-> x.n, exc |-> ""]
    [] x.t = "str" ->
         LET s == Strip(x.s)
             signed == s # <<>> /\ Head(s) \in {"-", "+"}
             body == IF signed THEN Tail(s) ELSE s
             dots == {i \in 1..Len(body) : body[i] = "."}
             dot == IF dots = {} THEN Len(body) + 1
                    ELSE CHOOSE i \in dots : TRUE
             whole == SubSeq(body, 1, dot - 1)
             frac == SubSeq(body, dot + 1, Len(body))
             frac4 == SubSeq(frac \o Rep("0", 4), 1, 4)
             wellFormed ==
               /\ Cardinality(dots) <= 1
               /\ whole \o frac # <<>>
               /\ \A i \in 1..Len(whole) : IsDigit(whole[i])
               /\ \A i \in 1..Len(frac) : IsDigit(frac[i])
             mag == DigitsVal(whole) * FloatScale + DigitsVal(frac4)
         IN  IF wellFormed
             THEN [ok |-> TRUE, exc |-> "",
                   n |-> IF signed /\ Head(s) = "-" THEN -mag ELSE mag]
             ELSE [ok |-> FALSE, n |-> 0, exc |-> "ValueError"]
    [] OTHER -> [ok |-> FALSE, n |-> 0, exc |-> "TypeError"]

(***************************************************************************)
(* Calendar: datetime's proleptic Gregorian ordinal.                       *)
(***************************************************************************)
IsLeap(y) == y % 4 = 0 /\ (y % 100 # 0 \/ y % 400 = 0)
DaysInMonth(y, m) ==
  IF m = 2 THEN (IF IsLeap(y) THEN 29 ELSE 28)
  ELSE IF m \in {4, 6, 9, 11} THEN 30 ELSE 31
DaysBeforeYear(y) ==
  (y - 1) * 365 + (y - 1) \div 4 - (y - 1) \div 100 + (y - 1) \div 400
RECURSIVE DaysBeforeMonth(_, _)
DaysBeforeMonth(y, m) ==
  IF m = 1 THEN 0 ELSE DaysBeforeMonth(y, m - 1) + DaysInMonth(y, m - 1)

\* date(y, m, d).toordinal()
ymd2ord(y, m, d) == DaysBeforeYear(y) + DaysBeforeMonth(y, m) + d

\* date.fromordinal(n), as [y, m, d]
ord2ymd(n) ==
  LET n0 == n - 1
      n400 == n0 \div 146097
      r400 == n0 % 146097
      n100 == r400 \div 36524
      r100 == r400 % 36524
      n4 == r100 \div 1461
      r4 == r100 % 1461
      n1 == r4 \div 365
      r1 == r4 % 365
      year == n400 * 400 + 1 + n100 * 100 + n4 * 4 + n1
  IN  IF n1 = 4 \/ n100 = 4 THEN [y |-> year - 1, m |-> 12, d |-> 31]
      ELSE LET month == CHOOSE m \in 1..12 :
                          /\ DaysBeforeMonth(year, m) <= r1
                          /\ r1 < DaysBeforeMonth(year, m) + DaysInMonth(year, m)
           IN  [y |-> year, m |-> month,
                d |-> r1 - DaysBeforeMonth(year, month) + 1]

\* a datetime: calendar day (ordinal) and hour of the day
DateTime(ord, hour) == [ord |-> ord, hour |-> hour]
DtLess(a, b) == a.ord < b.ord \/ (a.ord = b.ord /\ a.hour < b.hour)

\* n written with exactly w digits, zero-padded
RECURSIVE ZeroPad(_, _)
ZeroPad(n, w) ==
  IF w = 0 THEN <<>> ELSE ZeroPad(n \div 10, w - 1) \o <<Digit[(n % 10) + 1]>>

\* n written without padding
RECURSIVE Decimal(_)
Decimal(n) ==
  IF n < 10 THEN <<Digit[n + 1]>> ELSE Decimal(n \div 10) \o <<Digit[(n % 10) + 1]>>

\* dt.strftime('%Y-%m-%d')
strftime_Ymd(dt) ==
  LET c == ord2ymd(dt.ord)
  IN  ZeroPad(c.y, 4) \o <<"-">> \o ZeroPad(c.m, 2) \o <<"-">> \o ZeroPad(c.d, 2)

WeekdayNames == <<"Mon", "Tue", "Wed", "Thu", "Fri", "Sat", "Sun">>
\* dt.strftime('%a')
strftime_a(dt) == WeekdayNames[((dt.ord + 6) % 7) + 1]

\* datetime.strptime(s, '%Y-%m-%d') on a str: the year is four digits, the
\* month matches 1[0-2]|0[1-9]|[1-9], the day 3[01]|[12]\d|0[1-9]|[1-9]| [1-9]
strptime_Ymd(s) ==
  LET dashes == {i \in 1..Len(s) : s[i] = "-"}
      d1 == CHOOSE i \in dashes : \A j \in dashes : i <= j
      d2 == CHOOSE i \in dashes : \A j \in dashes : j <= i
      ytxt == SubSeq(s, 1, d1 - 1)
      mtxt == SubSeq(s, d1 + 1, d2 - 1)
      dtxt == SubSeq(s, d2 + 1, Len(s))
      dnum == IF dtxt[1] = " " THEN Tail(dtxt) ELSE dtxt
      yOk == Len(ytxt) = 4 /\ AllDigits(ytxt)
      mOk == /\ AllDigits(mtxt)
             /\ Len(mtxt) <= 2
             /\ DigitsVal(mtxt) \in 1..12
      dOk == /\ Len(dtxt) \in 1..2
             /\ AllDigits(dnum)
             /\ DigitsVal(dnum) \in 1..31
             /\ (dtxt[1] = " " => Len(dtxt) = 2)
      y == DigitsVal(ytxt)
      m == DigitsVal(mtxt)
      d == DigitsVal(dnum)
  IN  IF /\ Cardinality(dashes) = 2
         /\ yOk /\ mOk /\ dOk
         /\ y >= 1
         /\ d <= DaysInMonth(y, m)
      THEN [ok |-> TRUE, dt |-> DateTime(ymd2ord(y, m, d), 0)]
      ELSE [ok |-> FALSE, dt |-> DateTime(0, 0)]

(***************************************************************************)
(* validate_session_data.  Each rule yields the messages it appends, or    *)
(* the exception it lets escape; Then chains the rules in program order.   *)
(***************************************************************************)
Msgs(errors) == [exc |-> "", errors |-> errors]
Raise(exc) == [exc |-> exc, errors |-> <<>>]
Then(a, b) ==
  IF a.exc # "" THEN a
  ELSE IF b.exc # "" THEN b
  ELSE Msgs(a.errors \o b.errors)

\* the message e when the condition holds
When(cond, e) == IF cond THEN <<e>> ELSE <<>>

Fields ==
  {"school_name", "session_type", "location", "activator", "year_group",
   "male_participants", "female_participants", "session_date",
   "session_duration", "teacher_feedback", "latitude", "longitude"}

required_fields ==
  <<"school_name", "session_type", "location", "activator", "year_group",
    "male_participants", "female_participants", "session_date",
    "session_duration">>

\* field.replace('_', ' ').title()
FieldTitle ==
  [school_name |-> "School Name", session_type |-> "Session Type",
   location |-> "Location", activator |-> "Activator",
   year_group |-> "Year Group", male_participants |-> "Male Participants",
   female_participants |-> "Female Participants",
   session_date |-> "Session Date", session_duration |-> "Session Duration"]

RequiredMsg(field) == FieldTitle[field] \o " is required"

\* not data.get(field) or str(data.get(field)).strip() == ''
IsMissing(data, field) ==
  ~Truthy(Get(data, field)) \/ StrIsBlank(Get(data, field))

RECURSIVE RequiredFrom(_, _)
RequiredFrom(data, i) ==
  IF i > Len(required_fields) THEN <<>>
  ELSE When(IsMissing(data, required_fields[i]), RequiredMsg(required_fields[i]))
         \o RequiredFrom(data, i + 1)

required_rule(data) == Msgs(RequiredFrom(data, 1))

\* the two length checks of a text field; .strip() of a non-str raises
length_rule(data, field, label, maxLen, unit) ==
  LET x == Get(data, field)
  IN  IF ~Truthy(x) THEN Msgs(<<>>)
      ELSE IF x.t # "str" THEN Raise("AttributeError")
      ELSE Msgs(
             When(Len(Strip(x.s)) < 2,
                  label \o " must be at least 2 characters long")
             \o When(Len(Strip(x.s)) > maxLen,
                     label \o " must be less than " \o unit \o " characters"))

school_name_rule(data) ==
  length_rule(data, "school_name", "School name", 100, "100")
session_type_rule(data) ==
  length_rule(data, "session_type", "Session type", 50, "50")
location_rule(data) ==
  length_rule(data, "location", "Location", 100, "100")

\* re.match(r'^[a-zA-Z\s\-\.]+$', s)
ActivatorPattern(s) ==
  /\ s # <<>>
  /\ \A i \in 1..Len(s) : IsLetter(s[i]) \/ IsSpace(s[i]) \/ s[i] \in {"-", "."}

activator_rule(data) ==
  LET x == Get(data, "activator")
      base == length_rule(data, "activator", "Activator name", 50, "50")
  IN  IF base.exc # "" \/ ~Truthy(x) THEN base
      ELSE Then(base,
             Msgs(When(~ActivatorPattern(Strip(x.s)),
               "Activator name can only contain letters, spaces, hyphens, and periods")))

valid_year_groups ==
  << <<"Y","e","a","r"," ","1","-","2">>,
     <<"Y","e","a","r"," ","3","-","4">>,
     <<"Y","e","a","r"," ","5","-","6">>,
     <<"Y","e","a","r"," ","7","-","8">>,
     <<"Y","e","a","r"," ","9","-","1","0">>,
     <<"Y","e","a","r"," ","1","1","-","1","3">>,
     <<"M","i","x","e","d">> >>

InYearGroups(x) ==
  x.t = "str" /\ \E i \in 1..Len(valid_year_groups) : valid_year_groups[i] = x.s

year_group_rule(data) ==
  LET x == Get(data, "year_group")
  IN  Msgs(When(Truthy(x) /\ ~InYearGroups(x), "Please select a valid year group"))

MaxParticipants == 1000
MaxTotalParticipants == 2000
MaxDurationMinutes == 480
MaxFeedbackLen == 1000

\* one participant count: int(data.get(field, 0)) and its two range checks
count_rule(data, field, label) ==
  LET r == PyInt(GetOr0(data, field))
  IN  IF ~r.ok THEN Msgs(<<label \o " participants must be a valid number">>)
      ELSE Msgs(
             When(r.n < 0, label \o " participants cannot be negative")
             \o When(r.n > MaxParticipants,
                     label \o " participants seems too high (max 1000)"))

male_rule(data) == count_rule(data, "male_participants", "Male")
female_rule(data) == count_rule(data, "female_participants", "Female")

total_rule(data) ==
  LET m == PyInt(GetOr0(data, "male_participants"))
      f == PyInt(GetOr0(data, "female_participants"))
  IN  IF ~m.ok \/ ~f.ok THEN Msgs(<<>>)
      ELSE Msgs(
             When(m.n + f.n = 0, "Total participants must be greater than 0")
             \o When(m.n + f.n > MaxTotalParticipants,
                     "Total participants seems too high (max 2000)"))

duration_rule(data) ==
  LET r == PyInt(GetOr0(data, "session_duration"))
  IN  IF ~r.ok THEN Msgs(<<"Session duration must be a valid number">>)
      ELSE Msgs(
             When(r.n <= 0, "Session duration must be greater than 0 minutes")
             \o When(r.n > MaxDurationMinutes,
                     "Session duration seems too long (max 8 hours)"))

\* datetime(2020, 1, 1)
MinSessionDate == DateTime(ymd2ord(2020, 1, 1), 0)

\* a day of slack for clients in another time zone: only a date more than a
\* day ahead of the clock is in the future
DateInFuture_lenient(session_date, today) ==
  DtLess(DateTime(today.ord + 1, today.hour), session_date)

\* session_date >= today
DateInFuture_inclusive(session_date, today) == ~DtLess(session_date, today)

\* session_date > today
DateInFuture(session_date, today) == DtLess(today, session_date)
\* session_date < datetime(2020, 1, 1)
DateTooOld(session_date) == DtLess(session_date, MinSessionDate)

date_rule(data, now) ==
  LET x == Get(data, "session_date")
  IN  IF ~Truthy(x) THEN Msgs(<<>>)
      ELSE IF x.t # "str" THEN Raise("TypeError")
      ELSE LET p == strptime_Ymd(x.s)
           IN  IF ~p.ok THEN Msgs(<<"Please provide a valid session date">>)
               ELSE Msgs(
                      When(DateInFuture(p.dt, now),
                           "Session date cannot be in the future")
                      \o When(DateTooOld(p.dt), "Session date seems too old"))

\* an optional coordinate: float(data[field]) and its range check
coordinate_rule(data, field, label, limit, unit) ==
  LET x == Get(data, field)
      r == PyFloat(x)
  IN  IF ~Truthy(x) THEN Msgs(<<>>)
      ELSE IF ~r.ok THEN Msgs(<<label \o " must be a valid number">>)
      ELSE Msgs(When(r.n < -limit * FloatScale \/ r.n > limit * FloatScale,
                     label \o " must be between -" \o unit \o " and " \o unit))

latitude_rule(data) == coordinate_rule(data, "latitude", "Latitude", 90, "90")
longitude_rule(data) ==
  coordinate_rule(data, "longitude", "Longitude", 180, "180")

\* len(data['teacher_feedback']) of a non-str raises
feedback_rule(data) ==
  LET x == Get(data, "teacher_feedback")
  IN  IF ~Truthy(x) THEN Msgs(<<>>)
      ELSE IF x.t # "str" THEN Raise("TypeError")
      ELSE Msgs(When(Len(x.s) > MaxFeedbackLen,
                     "Teacher feedback must be less than 1000 characters"))

validate_session_data(data, now) ==
  Then(required_rule(data),
  Then(school_name_rule(data),
  Then(session_type_rule(data),
  Then(location_rule(data),
  Then(activator_rule(data),
  Then(year_group_rule(data),
  Then(male_rule(data),
  Then(female_rule(data),
  Then(total_rule(data),
  Then(duration_rule(data),
  Then(date_rule(data, now),
  Then(latitude_rule(data),
  Then(longitude_rule(data),
       feedback_rule(data))))))))))))))

(***************************************************************************)
(* The store after init_db has run on an empty database.                   *)
(***************************************************************************)
Sample1 ==
  [ id |-> 1,
    school_name |-> S(<<"A","u","c","k","l","a","n","d"," ","P","r","i","m","a",
                    "r","y"," ","S","c","h","o","o","l">>),
    session_type |-> S(<<"S","c","h","o","o","l"," ","F","e","s","t","i","v",
                     "e"," ","D","a","y">>),
    location |-> S(<<"S","c","h","o","o","l"," ","H","a","l","l">>),
    activator |-> S(<<"J","o","h","n"," ","S","m","i","t","h">>),
    year_group |-> S(<<"Y","e","a","r"," ","5","-","6">>),
    male_participants |-> I(8),
    female_participants |-> I(9),
    teacher_feedback |-> S(<<"G","r","e","a","t"," ","e","n","g","a","g","e",
                         "m","e","n","t"," ","f","r","o","m"," ","s","t",
                         "u","d","e","n","t","s">>),
    session_date |-> S(<<"2","0","2","5","-","0","1","-","1","6">>),
    session_duration |-> I(60),
    date_created |-> DateTime(ymd2ord(2025, 1, 16), 10),
    latitude |-> F(-368485),
    longitude |-> F(1747633) ]
Sample2 ==
  [ id |-> 2,
    school_name |-> S(<<"W","e","l","l","i","n","g","t","o","n"," ","H","i","g",
                    "h"," ","S","c","h","o","o","l">>),
    session_type |-> S(<<"C","o","m","m","u","n","i","t","y"," ","H","u","b",
                     " ","P","r","a","c","t","i","c","e">>),
    location |-> S(<<"G","y","m","n","a","s","i","u","m">>),
    activator |-> S(<<"S","a","r","a","h"," ","J","o","h","n","s","o","n">>),
    year_group |-> S(<<"Y","e","a","r"," ","7","-","8">>),
    male_participants |-> I(65),
    female_participants |-> I(62),
    teacher_feedback |-> S(<<"E","x","c","e","l","l","e","n","t"," ","p","a",
                         "r","t","i","c","i","p","a","t","i","o","n">>),
    session_date |-> S(<<"2","0","2","5","-","0","1","-","1","6">>),
    session_duration |-> I(90),
    date_created |-> DateTime(ymd2ord(2025, 1, 16), 14),
    latitude |-> F(-412865),
    longitude |-> F(1747762) ]
Sample3 ==
  [ id |-> 3,
    school_name |-> S(<<"C","h","r","i","s","t","c","h","u","r","c","h"," ","C",
                    "o","l","l","e","g","e">>),
    session_type |-> S(<<"G","i","r","l","'","s"," ","C","r","i","c","k","e",
                     "t"," ","P","r","o","g","r","a","m","m","e">>),
    location |-> S(<<"S","p","o","r","t","s"," ","F","i","e","l","d">>),
    activator |-> S(<<"M","i","k","e"," ","W","i","l","s","o","n">>),
    year_group |-> S(<<"Y","e","a","r"," ","9","-","1","0">>),
    male_participants |-> I(15),
    female_participants |-> I(13),
    teacher_feedback |-> S(<<"G","o","o","d"," ","s","k","i","l","l"," ","d",
                         "e","v","e","l","o","p","m","e","n","t">>),
    session_date |-> S(<<"2","0","2","5","-","0","1","-","1","6">>),
    session_duration |-> I(45),
    date_created |-> DateTime(ymd2ord(2025, 1, 16), 16),
    latitude |-> F(-435321),
    longitude |-> F(1726362) ]
Sample4 ==
  [ id |-> 4,
    school_name |-> S(<<"H","a","m","i","l","t","o","n"," ","E","l","e","m","e",
                    "n","t","a","r","y">>),
    session_type |-> S(<<"K","i","w","i"," ","C","r","i","c","k","e","t"," ",
                     "S","k","i","l","l","s"," ","S","e","s","s","i","o",
                     "n">>),
    location |-> S(<<"C","o","m","m","u","n","i","t","y"," ","C","e","n","t",
                 "e","r">>),
    activator |-> S(<<"L","i","s","a"," ","B","r","o","w","n">>),
    year_group |-> S(<<"Y","e","a","r"," ","3","-","4">>),
    male_participants |-> I(12),
    female_participants |-> I(15),
    teacher_feedback |-> S(<<"V","e","r","y"," ","e","n","t","h","u","s","i",
                         "a","s","t","i","c"," ","g","r","o","u","p">>),
    session_date |-> S(<<"2","0","2","5","-","0","1","-","1","5">>),
    session_duration |-> I(75),
    date_created |-> DateTime(ymd2ord(2025, 1, 15), 11),
    latitude |-> F(-377870),
    longitude |-> F(1752793) ]
Sample5 ==
  [ id |-> 5,
    school_name |-> S(<<"D","u","n","e","d","i","n"," ","A","c","a","d","e","m",
                    "y">>),
    session_type |-> S(<<"I","n","2","C","r","i","c","k","e","t"," ","T","a",
                     "s","t","e","r">>),
    location |-> S(<<"M","a","i","n"," ","H","a","l","l">>),
    activator |-> S(<<"D","a","v","i","d"," ","L","e","e">>),
    year_group |-> S(<<"Y","e","a","r"," ","6","-","7">>),
    male_participants |-> I(20),
    female_participants |-> I(18),
    teacher_feedback |-> S(<<"P","o","s","i","t","i","v","e"," ","f","e","e",
                         "d","b","a","c","k">>),
    session_date |-> S(<<"2","0","2","5","-","0","1","-","1","5">>),
    session_duration |-> I(120),
    date_created |-> DateTime(ymd2ord(2025, 1, 15), 13),
    latitude |-> F(-458788),
    longitude |-> F(1705028) ]

sample_sessions == {Sample1, Sample2, Sample3, Sample4, Sample5}

(***************************************************************************)
(* State.                                                                  *)
(***************************************************************************)
VARIABLES
  sessions,           \* rows of table sessions
  sessions_seq,       \* AUTOINCREMENT: largest id ever given to a session
  session_photos,     \* rows of table session_photos
  files,              \* paths present under uploads/photos
  clock,              \* the wall clock, datetime.now()
  request,            \* the request being answered
  validation_errors,  \* what validate_session_data gave for that request
  response,           \* the answer to that request
  photos_seq,         \* AUTOINCREMENT: largest id ever given to a photo
  uuids_drawn,        \* number of uuid4() values drawn for stored file names
  upload,             \* the upload request that has passed its existence check
  db_locked,          \* a dropped connection still holds its write transaction
  returned_ids        \* history: every session_id a create_session returned

vars ==
  <<sessions, sessions_seq, session_photos, files, clock, request,
    validation_errors, response, photos_seq, uuids_drawn, upload, db_locked,
    returned_ids>>

\* what the handlers of table sessions and the statistics never touch
photo_vars == <<photos_seq, uuids_drawn, upload, db_locked>>

\* the day the server is started on
StartDay == ymd2ord(2025, 1, 16)

\* hours between two observations of the wall clock
TickHours == 12

\* the wall clock one tick later
Ticked(now) ==
  IF now.hour + TickHours >= 24 THEN DateTime(now.ord + 1, 0)
  ELSE DateTime(now.ord, now.hour + TickHours)

CanTick(now) == Ticked(now).ord <= StartDay + MaxDays

Clocks ==
  {DateTime(StartDay + d, h) : d \in 0..MaxDays, h \in {0, TickHours}}

\* validate_session_data was not called for the request
NotCalled == [exc |-> "not called", errors |-> <<>>]

NoRequest == [op |-> "none", session_id |-> 0, data |-> [f \in Fields |-> Absent]]

\* jsonify(...) bodies with their status code
Reply(status, success, errors, session_id) ==
  [status |-> status, success |-> success, errors |-> errors,
   session_id |-> session_id, recent_participants |-> 0, daily_stats |-> <<>>,
   photos |-> <<>>, sessions |-> <<>>]

StatsReply(recent_participants, daily_stats) ==
  [status |-> 200, success |-> TRUE, errors |-> <<>>, session_id |-> 0,
   recent_participants |-> recent_participants, daily_stats |-> daily_stats,
   photos |-> <<>>, sessions |-> <<>>]

\* jsonify(...) of a body that carries a list of photos
PhotosReply(photos) ==
  [status |-> 200, success |-> TRUE, errors |-> <<>>, session_id |-> 0,
   recent_participants |-> 0, daily_stats |-> <<>>,
   photos |-> photos, sessions |-> <<>>]

\* jsonify(sessions)
SessionsReply(rows) ==
  [status |-> 200, success |-> TRUE, errors |-> <<>>, session_id |-> 0,
   recent_participants |-> 0, daily_stats |-> <<>>,
   photos |-> <<>>, sessions |-> rows]

\* str(e) of sqlite3.OperationalError when another connection holds the
\* write lock for longer than the 5 s the connection waits
LockedError == "Server error: database is locked"

NoResponse == Reply(0, FALSE, <<>>, 0)

\* request.files of an upload: whether the form has a 'photos' part, and
\* getlist('photos')
NoFiles == [has_photos |-> FALSE, photos |-> <<>>]

\* no upload request is between its existence check and its loop
NoUpload == [pc |-> "idle", session_id |-> 0, files |-> NoFiles]

(***************************************************************************)
(* Request handlers.                                                       *)
(***************************************************************************)
\* not data
IsEmptyPayload(data) == \A f \in Fields : data[f] = Absent

\* the validation result is not looked at
HasErrors_ignored(v) == FALSE

\* if validation_errors:
HasErrors(v) == v.errors # <<>>

\* float(data[field]) if data.get(field) else None
CoordinateOrNull(data, field) ==
  IF Truthy(Get(data, field)) THEN F(PyFloat(data[field]).n) ELSE None

\* data.get('teacher_feedback', '').strip() if data.get('teacher_feedback') else None
FeedbackOrNull(data) ==
  IF Truthy(Get(data, "teacher_feedback"))
  THEN S(Strip(data["teacher_feedback"].s))
  ELSE None

\* the column values bound by the INSERT and the UPDATE statements
RowOf(id, date_created, data) ==
  [ id |-> id,
    school_name |-> S(Strip(data["school_name"].s)),
    session_type |-> S(Strip(data["session_type"].s)),
    location |-> S(Strip(data["location"].s)),
    activator |-> S(Strip(data["activator"].s)),
    year_group |-> data["year_group"],
    male_participants |-> I(PyInt(data["male_participants"]).n),
    female_participants |-> I(PyInt(data["female_participants"]).n),
    teacher_feedback |-> FeedbackOrNull(data),
    session_date |-> data["session_date"],
    session_duration |-> I(PyInt(data["session_duration"]).n),
    date_created |-> date_created,
    latitude |-> CoordinateOrNull(data, "latitude"),
    longitude |-> CoordinateOrNull(data, "longitude") ]

NumSamples == Cardinality(sample_sessions)

\* the id of a table without AUTOINCREMENT: one more than the largest id
\* the table holds now
lastrowid_reused ==
  IF sessions = {} THEN 1
  ELSE (CHOOSE i \in {r.id : r \in sessions} :
          \A r \in sessions : r.id <= i) + 1

\* cursor.lastrowid of the INSERT into sessions (id INTEGER PRIMARY KEY
\* AUTOINCREMENT): one more than the largest id the table ever held
lastrowid == sessions_seq + 1

\* POST /api/sessions
create_session(data) ==
  LET v == validate_session_data(data, clock)
      id == lastrowid
  IN  /\ request' = [op |-> "create_session", session_id |-> 0, data |-> data]
      /\ UNCHANGED <<session_photos, files, clock, photo_vars>>
      /\ IF IsEmptyPayload(data)
         THEN /\ validation_errors' = NotCalled
              /\ response' = Reply(400, FALSE, <<"No data provided">>, 0)
              /\ UNCHANGED <<sessions, sessions_seq, returned_ids>>
         ELSE /\ validation_errors' = v
              /\ IF v.exc # ""
                 THEN /\ response' =
                           Reply(500, FALSE, <<"Server error: " \o v.exc>>, 0)
                      /\ UNCHANGED <<sessions, sessions_seq, returned_ids>>
                 ELSE IF HasErrors(v)
                 THEN /\ response' = Reply(400, FALSE, v.errors, 0)
                      /\ UNCHANGED <<sessions, sessions_seq, returned_ids>>
                 ELSE IF db_locked
                 THEN /\ response' = Reply(500, FALSE, <<LockedError>>, 0)
                      /\ UNCHANGED <<sessions, sessions_seq, returned_ids>>
                 ELSE /\ sessions' = sessions \cup {RowOf(id, clock, data)}
                      /\ sessions_seq' = id
                      /\ returned_ids' = returned_ids \cup {id}
                      /\ response' = Reply(200, TRUE, <<>>, id)

\* SELECT id FROM sessions WHERE id = ?
SessionExists(id) == \E r \in sessions : r.id = id

\* an UPDATE written as INSERT OR REPLACE: date_created takes its default
UpdatedRow_recreated(old, data) == RowOf(old.id, clock, data)

\* the row after UPDATE sessions SET ... WHERE id=?: the statement names
\* neither id nor date_created
UpdatedRow(old, data) == RowOf(old.id, old.date_created, data)

\* PUT /api/sessions/<session_id>
update_session(session_id, data) ==
  LET v == validate_session_data(data, clock)
      old == CHOOSE r \in sessions : r.id = session_id
  IN  /\ request' =
           [op |-> "update_session", session_id |-> session_id, data |-> data]
      /\ UNCHANGED <<sessions_seq, session_photos, files, clock, photo_vars,
                     returned_ids>>
      /\ IF IsEmptyPayload(data)
         THEN /\ validation_errors' = NotCalled
              /\ response' = Reply(400, FALSE, <<"No data provided">>, 0)
              /\ UNCHANGED sessions
         ELSE /\ validation_errors' = v
              /\ IF v.exc # ""
                 THEN /\ response' =
                           Reply(500, FALSE, <<"Server error: " \o v.exc>>, 0)
                      /\ UNCHANGED sessions
                 ELSE IF HasErrors(v)
                 THEN /\ response' = Reply(400, FALSE, v.errors, 0)
                      /\ UNCHANGED sessions
                 ELSE IF ~SessionExists(session_id)
                 THEN /\ response' = Reply(404, FALSE, <<"Session not found">>, 0)
                      /\ UNCHANGED sessions
                 ELSE IF db_locked
                 THEN /\ response' = Reply(500, FALSE, <<LockedError>>, 0)
                      /\ UNCHANGED sessions
                 ELSE /\ sessions' = (sessions \ {old}) \cup {UpdatedRow(old, data)}
                      /\ response' = Reply(200, TRUE, <<>>, 0)

\* DELETE /api/sessions/<session_id>.  The connection never turns foreign
\* keys on, so ON DELETE CASCADE does not remove the session_photos rows.
\* The files are removed before the DELETE statement is tried.
delete_session(session_id) ==
  LET photos == {p \in session_photos : p.session_id = session_id}
  IN  /\ request' =
           [op |-> "delete_session", session_id |-> session_id,
            data |-> [f \in Fields |-> Absent]]
      /\ validation_errors' = NotCalled
      /\ files' = files \ {p.file_path : p \in photos}
      /\ IF db_locked
         THEN /\ response' = Reply(500, FALSE, <<LockedError>>, 0)
              /\ UNCHANGED sessions
         ELSE /\ sessions' = {r \in sessions : r.id # session_id}
              /\ response' = Reply(200, TRUE, <<>>, 0)
      /\ UNCHANGED <<sessions_seq, session_photos, clock, photo_vars,
                     returned_ids>>

(***************************************************************************)
(* Photo attachments.                                                      *)
(***************************************************************************)
UPLOAD_FOLDER == <<"u","p","l","o","a","d","s","/","p","h","o","t","o","s">>

ALLOWED_EXTENSIONS ==
  {<<"p","n","g">>, <<"j","p","g">>, <<"j","p","e","g">>, <<"g","i","f">>}

MAX_FILE_SIZE == 5 * 1024 * 1024

\* the characters of a text as one string, as an f-string inserts them
RECURSIVE Text(_)
Text(chars) == IF chars = <<>> THEN "" ELSE Head(chars) \o Text(Tail(chars))

\* str.lower()
LowerChar(c) ==
  IF Ord(c) >= Ord("A") /\ Ord(c) <= Ord("Z")
  THEN Alphabet[Ord(c) + (Ord("a") - Ord("A"))]
  ELSE c
Lower(s) == [i \in 1..Len(s) |-> LowerChar(s[i])]

\* '.' in filename
HasDot(filename) == \E i \in 1..Len(filename) : filename[i] = "."

\* filename.rsplit('.', 1)[1]
AfterLastDot(filename) ==
  LET last == CHOOSE i \in 1..Len(filename) :
                /\ filename[i] = "."
                /\ \A j \in (i + 1)..Len(filename) : filename[j] # "."
  IN  SubSeq(filename, last + 1, Len(filename))

allowed_file(filename) ==
  HasDot(filename) /\ Lower(AfterLastDot(filename)) \in ALLOWED_EXTENSIONS

\* f"{uuid.uuid4().hex}.{file_extension}": the k-th value drawn is written
\* with the digits of k, so that no two values drawn are the same
unique_filename(k, filename) ==
  Decimal(k) \o <<".">> \o Lower(AfterLastDot(filename))

\* os.path.join(UPLOAD_FOLDER, unique_filename)
PathOf(name) == UPLOAD_FOLDER \o <<"/">> \o name

\* the loop of upload_photos before any file is looked at
LoopStart ==
  [status |-> 0, errors |-> <<>>, saved |-> {}, rows |-> <<>>,
   uploaded_photos |-> <<>>, drawn |-> uuids_drawn]

\* for file in files: ... ; status 0 is a loop that ran to its end, any other
\* status is the return that left it.  saved are the paths written and not
\* removed, rows the INSERTs executed and not yet committed.
RECURSIVE upload_loop(_, _, _)
upload_loop(session_id, list, st) ==
  IF list = <<>> \/ st.status # 0 THEN st
  ELSE
    LET file == Head(list)
        name == unique_filename(st.drawn + 1, file.filename)
        file_path == PathOf(name)
        row == [id |-> photos_seq + Len(st.rows) + 1,
                session_id |-> session_id,
                filename |-> name,
                original_filename |-> file.filename,
                file_path |-> file_path,
                file_size |-> file.size,
                upload_date |-> clock]
        after ==
          IF file.filename = <<>> THEN st
          ELSE IF ~allowed_file(file.filename)
          THEN [st EXCEPT
                 !.status = 400,
                 !.errors = <<"File type not allowed for "
                                \o Text(file.filename)>>]
          ELSE IF file.size > MAX_FILE_SIZE
          THEN [st EXCEPT
                 !.drawn = @ + 1,
                 !.status = 400,
                 !.errors = <<"File " \o Text(file.filename)
                                \o " is too large (max 5MB)">>]
          ELSE IF db_locked
          THEN [st EXCEPT
                 !.drawn = @ + 1,
                 !.saved = @ \cup {file_path},
                 !.status = 500,
                 !.errors = <<LockedError>>]
          ELSE [st EXCEPT
                 !.drawn = @ + 1,
                 !.saved = @ \cup {file_path},
                 !.rows = Append(@, row),
                 !.uploaded_photos =
                    Append(@, [filename |-> name,
                               original_filename |-> file.filename,
                               size |-> file.size])]
    IN  upload_loop(session_id, Tail(list), after)

\* the elements of a sequence
Range(seq) == {seq[i] : i \in 1..Len(seq)}

\* a commit after every INSERT: the rows of the files before the failing one
\* are in the table
committed_each(st) == st.rows

\* conn.commit() is reached only when the loop runs to its end: the rows a
\* request inserted before it returned early are never committed
committed(st) == IF st.status = 0 THEN st.rows ELSE <<>>

\* POST /api/sessions/<session_id>/photos, up to the start of its loop: the
\* existence check and the look for the 'photos' part
upload_photos_check(session_id, form) ==
  /\ upload.pc = "idle"
  /\ request' =
       [op |-> "upload_photos", session_id |-> session_id,
        data |-> [f \in Fields |-> Absent]]
  /\ validation_errors' = NotCalled
  /\ IF ~SessionExists(session_id)
     THEN /\ response' = Reply(404, FALSE, <<"Session not found">>, 0)
          /\ UNCHANGED upload
     ELSE IF ~form.has_photos
     THEN /\ response' = Reply(400, FALSE, <<"No photos provided">>, 0)
          /\ UNCHANGED upload
     ELSE /\ response' = NoResponse
          /\ upload' =
               [pc |-> "checked", session_id |-> session_id, files |-> form]
  /\ UNCHANGED <<sessions, sessions_seq, session_photos, files, clock,
                 photos_seq, uuids_drawn, db_locked, returned_ids>>

\* POST /api/sessions/<session_id>/photos, from its loop to its return.  A
\* return from inside the loop leaves the connection open; when it has
\* executed an INSERT it keeps the write lock until it is collected.
upload_photos_store ==
  LET st == upload_loop(upload.session_id, upload.files.photos, LoopStart)
  IN  /\ upload.pc = "checked"
      /\ request' =
           [op |-> "upload_photos", session_id |-> upload.session_id,
            data |-> [f \in Fields |-> Absent]]
      /\ validation_errors' = NotCalled
      /\ files' = files \cup st.saved
      /\ uuids_drawn' = st.drawn
      /\ session_photos' = session_photos \cup Range(committed(st))
      /\ photos_seq' = photos_seq + Len(committed(st))
      /\ db_locked' = (db_locked \/ (st.status # 0 /\ st.rows # <<>>))
      /\ response' =
           IF st.status = 0 THEN PhotosReply(st.uploaded_photos)
           ELSE Reply(st.status, FALSE, st.errors, 0)
      /\ upload' = NoUpload
      /\ UNCHANGED <<sessions, sessions_seq, clock, returned_ids>>

\* the cyclic garbage collector closes a connection a handler dropped: its
\* transaction is rolled back and the write lock released
connection_collected ==
  /\ db_locked
  /\ db_locked' = FALSE
  /\ UNCHANGED <<sessions, sessions_seq, session_photos, files, clock,
                 request, validation_errors, response, photos_seq,
                 uuids_drawn, upload, returned_ids>>

\* ORDER BY upload_date DESC; rows with equal dates come in id order
RECURSIVE PhotosInOrder(_)
PhotosInOrder(rows) ==
  IF rows = {} THEN <<>>
  ELSE LET first == CHOOSE p \in rows :
                      \A q \in rows \ {p} :
                        \/ DtLess(q.upload_date, p.upload_date)
                        \/ q.upload_date = p.upload_date /\ p.id < q.id
       IN  <<first>> \o PhotosInOrder(rows \ {first})

\* the dictionary built for a row of the SELECT of get_session_photos
PhotoEntry(p) ==
  [id |-> p.id, filename |-> p.filename,
   original_filename |-> p.original_filename, file_size |-> p.file_size,
   upload_date |-> p.upload_date,
   url |-> <<"/">> \o UPLOAD_FOLDER \o <<"/">> \o p.filename]

\* GET /api/sessions/<session_id>/photos
get_session_photos(session_id) ==
  LET rows == PhotosInOrder({p \in session_photos : p.session_id = session_id})
  IN  /\ request' =
           [op |-> "get_session_photos", session_id |-> session_id,
            data |-> [f \in Fields |-> Absent]]
      /\ validation_errors' = NotCalled
      /\ response' = PhotosReply([i \in 1..Len(rows) |-> PhotoEntry(rows[i])])
      /\ UNCHANGED <<sessions, sessions_seq, session_photos, files, clock,
                     photo_vars, returned_ids>>

\* DELETE /api/sessions/<session_id>/photos/<photo_id>.  The file is removed
\* before the DELETE statement is tried.
delete_photo(session_id, photo_id) ==
  LET found == {p \in session_photos :
                  p.id = photo_id /\ p.session_id = session_id}
  IN  /\ request' =
           [op |-> "delete_photo", session_id |-> session_id,
            data |-> [f \in Fields |-> Absent]]
      /\ validation_errors' = NotCalled
      /\ IF found = {}
         THEN /\ response' = Reply(404, FALSE, <<"Photo not found">>, 0)
              /\ UNCHANGED <<session_photos, files>>
         ELSE /\ files' = files \ {p.file_path : p \in found}
              /\ IF db_locked
                 THEN /\ response' = Reply(500, FALSE, <<LockedError>>, 0)
                      /\ UNCHANGED session_photos
                 ELSE /\ session_photos' = session_photos \ found
                      /\ response' = Reply(200, TRUE, <<>>, 0)
      /\ UNCHANGED <<sessions, sessions_seq, clock, photo_vars, returned_ids>>

\* text comparison of SQLite (BINARY collation): a < b
RECURSIVE TextLess(_, _)
TextLess(a, b) ==
  IF b = <<>> THEN FALSE
  ELSE IF a = <<>> THEN TRUE
  ELSE IF Head(a) = Head(b) THEN TextLess(Tail(a), Tail(b))
  ELSE Ord(Head(a)) < Ord(Head(b))

\* ORDER BY s.session_date DESC, s.date_created DESC: a comes before b;
\* rows equal in both come in id order
SessionBefore(a, b) ==
  \/ TextLess(b.session_date.s, a.session_date.s)
  \/ /\ a.session_date.s = b.session_date.s
     /\ \/ DtLess(b.date_created, a.date_created)
        \/ a.date_created = b.date_created /\ a.id < b.id

RECURSIVE SessionsInOrder(_)
SessionsInOrder(rows) ==
  IF rows = {} THEN <<>>
  ELSE LET first == CHOOSE r \in rows :
                      \A q \in rows \ {r} : SessionBefore(r, q)
       IN  <<first>> \o SessionsInOrder(rows \ {first})

\* the dictionary built for a row of the SELECT of get_sessions
SessionEntry(r) ==
  [ id |-> r.id,
    school_name |-> r.school_name,
    session_type |-> r.session_type,
    location |-> r.location,
    activator |-> r.activator,
    year_group |-> r.year_group,
    male_participants |-> r.male_participants,
    female_participants |-> r.female_participants,
    teacher_feedback |-> r.teacher_feedback,
    session_date |-> r.session_date,
    session_duration |-> r.session_duration,
    date_created |-> r.date_created,
    latitude |-> r.latitude,
    longitude |-> r.longitude,
    photo_count |-> Cardinality({p \in session_photos : p.session_id = r.id}),
    total_participants |-> r.male_participants.n + r.female_participants.n ]

\* GET /api/sessions
get_sessions ==
  LET rows == SessionsInOrder(sessions)
  IN  /\ request' =
           [op |-> "get_sessions", session_id |-> 0,
            data |-> [f \in Fields |-> Absent]]
      /\ validation_errors' = NotCalled
      /\ response' = SessionsReply([i \in 1..Len(rows) |-> SessionEntry(rows[i])])
      /\ UNCHANGED <<sessions, sessions_seq, session_photos, files, clock,
                     photo_vars, returned_ids>>

\* SUM(male_participants + female_participants) over rows, or 0 for NULL
RECURSIVE SumParticipants(_)
SumParticipants(rows) ==
  IF rows = {} THEN 0
  ELSE LET r == CHOOSE x \in rows : TRUE
       IN  r.male_participants.n + r.female_participants.n
             + SumParticipants(rows \ {r})

\* dt - timedelta(days=k)
MinusDays(dt, k) == DateTime(dt.ord - k, dt.hour)

\* number of times get_stats reads datetime.now()
NumClockReads == 15

\* the k-th reading of datetime.now() when the clock ticks just before the
\* reading numbered tickAt (0: it does not tick during the call)
ClockRead(k, tickAt) ==
  IF tickAt # 0 /\ k >= tickAt THEN Ticked(clock) ELSE clock

\* WHERE session_date >= ?
RecentRows(seven_days_ago) ==
  {r \in sessions : ~TextLess(r.session_date.s, seven_days_ago)}

\* WHERE session_date = ?
RowsOn(date) == {r \in sessions : r.session_date.s = date}

\* the entry appended by iteration i of the loop
DailyStat(i, tickAt) ==
  LET date == strftime_Ymd(MinusDays(ClockRead(2 + 2 * i, tickAt), 6 - i))
  IN  [date |-> date,
       participants |-> SumParticipants(RowsOn(date)),
       day |-> strftime_a(MinusDays(ClockRead(3 + 2 * i, tickAt), 6 - i))]

\* GET /api/stats
get_stats(tickAt) ==
  LET seven_days_ago == strftime_Ymd(MinusDays(ClockRead(1, tickAt), 7))
  IN  /\ tickAt # 0 => CanTick(clock)
      /\ request' =
           [op |-> "get_stats", session_id |-> 0,
            data |-> [f \in Fields |-> Absent]]
      /\ validation_errors' = NotCalled
      /\ response' =
           StatsReply(SumParticipants(RecentRows(seven_days_ago)),
                      [j \in 1..7 |-> DailyStat(j - 1, tickAt)])
      /\ clock' = IF tickAt = 0 THEN clock ELSE Ticked(clock)
      /\ UNCHANGED <<sessions, sessions_seq, session_photos, files, photo_vars,
                     returned_ids>>

\* time passes between two requests
Tick ==
  /\ CanTick(clock)
  /\ clock' = Ticked(clock)
  /\ UNCHANGED <<sessions, sessions_seq, session_photos, files, request,
                 validation_errors, response, photo_vars, returned_ids>>

(***************************************************************************)
(* Inputs.                                                                 *)
(***************************************************************************)
Ab == <<"A","b">>
Blank == <<" "," ">>

\* the text strftime gives for a day, and the same day without zero padding
Padded(ord) == strftime_Ymd(DateTime(ord, 0))
Unpadded(ord) ==
  LET c == ord2ymd(ord)
  IN  Decimal(c.y) \o <<"-">> \o Decimal(c.m) \o <<"-">> \o Decimal(c.d)

\* a payload every rule accepts on every day of the model
BasePayload ==
  [ school_name |-> S(Ab), session_type |-> S(Ab), location |-> S(Ab),
    activator |-> S(Ab), year_group |-> S(<<"M","i","x","e","d">>),
    male_participants |-> I(5), female_participants |-> I(5),
    session_date |-> S(Padded(StartDay)), session_duration |-> I(60),
    teacher_feedback |-> Absent, latitude |-> Absent, longitude |-> Absent ]

With(data, field, value) == [data EXCEPT ![field] = value]

TextInputs(maxLen) ==
  {Absent, None, S(<<>>), S(Blank), S(<<"A">>), S(<<" ","A","b"," ">>),
   S(<<"A","1">>), S(<<"A","-","b",".">>), S(Rep("a", maxLen)),
   S(Rep("a", maxLen + 1)), I(123), I(0)}

YearGroupInputs ==
  {Absent, None, S(<<>>), S(Blank), S(<<"Y","e","a","r"," ","6","-","7">>),
   S(<<"Y","e","a","r"," ","5","-","6">>), S(<<"m","i","x","e","d">>), I(5)}

CountInputs ==
  {Absent, None, I(0), I(1), I(-1), I(-3), I(1000), I(1001), F(25000),
   S(<<"0">>), S(<<"5">>), S(<<" ","7"," ">>), S(<<"-","3">>),
   S(<<"2",".","5">>), S(<<"a","b","c">>), S(<<>>), S(Blank)}

DurationInputs ==
  {Absent, None, I(0), I(1), I(-5), I(480), I(481), S(<<"6","0">>),
   S(<<"a","b","c">>), S(Blank)}

\* days around the 7-day window of every day of the model, and the epoch
DayInputs ==
  (StartDay - 8 .. StartDay + MaxDays + 1)
    \cup {ymd2ord(2020, 1, 1), ymd2ord(2019, 12, 31)}

DateInputs ==
  {S(Padded(d)) : d \in DayInputs} \cup {S(Unpadded(d)) : d \in DayInputs}
    \cup {Absent, None, S(<<>>), S(Blank), I(20250116), S(<<"a","b","c">>),
          S(<<"2","0","2","5","-","0","2","-","3","0">>),
          S(<<"2","0","2","5","-","1","3","-","0","1">>),
          S(<<"1","6","-","0","1","-","2","0","2","5">>),
          S(Padded(StartDay) \o <<" ">>)}

CoordinateInputs ==
  {Absent, None, I(0), F(0), I(90), I(91), I(-180), I(-181), F(-368485),
   F(900001), S(<<"0">>), S(<<"-","3","6",".","8","4","8","5">>),
   S(<<"a","b","c">>), S(<<>>)}

FeedbackInputs ==
  {Absent, None, S(<<>>), S(<<" ","o","k"," ">>), S(Rep("a", MaxFeedbackLen)),
   S(Rep("a", MaxFeedbackLen + 1)), I(5)}

\* candidate records given to the validator: the base payload with one field
\* replaced, with both counts replaced, or with no field at all
Candidates ==
  {With(BasePayload, f, x) :
     f \in {"school_name", "location"}, x \in TextInputs(100)}
    \cup {With(BasePayload, f, x) :
            f \in {"session_type", "activator"}, x \in TextInputs(50)}
    \cup {With(BasePayload, "year_group", x) : x \in YearGroupInputs}
    \cup {With(With(BasePayload, "male_participants", m),
               "female_participants", f) : m \in CountInputs, f \in CountInputs}
    \cup {With(BasePayload, "session_duration", x) : x \in DurationInputs}
    \cup {With(BasePayload, "session_date", x) : x \in DateInputs}
    \cup {With(BasePayload, f, x) :
            f \in {"latitude", "longitude"}, x \in CoordinateInputs}
    \cup {With(BasePayload, "teacher_feedback", x) : x \in FeedbackInputs}
    \cup {[f \in Fields |-> Absent]}

\* payloads sent to the handlers
Payloads ==
  {With(BasePayload, "session_date", S(Padded(StartDay - 7))),
   With(BasePayload, "session_date", S(Unpadded(StartDay))),
   With(BasePayload, "session_date", S(Padded(StartDay + 1))),
   With(BasePayload, "male_participants", I(0)),
   With(BasePayload, "school_name", S(Blank)),
   With(BasePayload, "school_name", I(123)),
   [f \in Fields |-> Absent]}

\* session ids named by update and delete requests: the first session created
RequestIds == {NumSamples + 1}

\* readings of the clock inside get_stats before which it may tick
TickPoints == {0} \cup (2 .. NumClockReads)

\* files an upload request may carry: an image, an image of exactly the
\* largest size with an upper-case extension, a text file, an image one byte
\* too large, and a part without a file name
Png == [filename |-> <<"a",".","p","n","g">>, size |-> 10]
LimitJpg == [filename |-> <<"b",".","J","P","G">>, size |-> MAX_FILE_SIZE]
Txt == [filename |-> <<"c",".","t","x","t">>, size |-> 10]
Huge == [filename |-> <<"d",".","g","i","f">>, size |-> MAX_FILE_SIZE + 1]
Unnamed == [filename |-> <<>>, size |-> 0]

\* getlist('photos') of the upload requests: the offending file alone, after
\* and before an image
FileLists ==
  {<<Png>>, <<Huge>>, <<Unnamed, LimitJpg>>, <<Png, Txt>>, <<Png, Huge>>,
   <<Txt, Png>>}

\* request.files of the upload requests
Forms == {NoFiles} \cup {[has_photos |-> TRUE, photos |-> l] : l \in FileLists}

\* session ids named by the requests about photos: two sample sessions
PhotoSessionIds == {1, 2}

\* of these, the session that update and delete requests name
RevisedIds == {1}

\* session ids named where sessions are created again: a sample session and
\* the first session created
RecreatedIds == {1, NumSamples + 1}

\* photo ids named by delete_photo requests
PhotoIds == 1..MaxFiles

\* payloads that differ in their coordinates only
CoordinatePayloads ==
  {With(With(BasePayload, "latitude", lat), "longitude", long) :
     lat \in CoordinateInputs, long \in CoordinateInputs}

\* the payload of the update requests sent while photos are handled
RevisedPayload == With(BasePayload, "school_name", S(<<"C","d">>))

(***************************************************************************)
(* The server: requests arrive one at a time, time passes between them.    *)
(***************************************************************************)
Init ==
  /\ sessions = sample_sessions
  /\ sessions_seq = NumSamples
  /\ session_photos = {}
  /\ files = {}
  /\ clock = DateTime(StartDay, 0)
  /\ request = NoRequest
  /\ validation_errors = NotCalled
  /\ response = NoResponse
  /\ photos_seq = 0
  /\ uuids_drawn = 0
  /\ upload = NoUpload
  /\ db_locked = FALSE
  /\ returned_ids = {}

Next ==
  \/ \E data \in Payloads :
       sessions_seq < NumSamples + MaxCreates /\ create_session(data)
  \/ \E id \in RequestIds, data \in Payloads : update_session(id, data)
  \/ \E id \in RequestIds : delete_session(id)
  \/ \E tickAt \in TickPoints : get_stats(tickAt)
  \/ Tick

Spec == Init /\ [][Next]_vars

(***************************************************************************)
(* The validator on its own: a candidate and a moment are drawn, and       *)
(* validate_session_data is applied.                                       *)
(***************************************************************************)
InitValidator ==
  /\ sessions = sample_sessions
  /\ sessions_seq = NumSamples
  /\ session_photos = {}
  /\ files = {}
  /\ clock \in Clocks
  /\ request \in {[op |-> "validate", session_id |-> 0, data |-> d] :
                    d \in Candidates}
  /\ validation_errors = NotCalled
  /\ response = NoResponse
  /\ photos_seq = 0
  /\ uuids_drawn = 0
  /\ upload = NoUpload
  /\ db_locked = FALSE
  /\ returned_ids = {}

call_validate ==
  /\ request.op = "validate"
  /\ validation_errors = NotCalled
  /\ validation_errors' = validate_session_data(request.data, clock)
  /\ UNCHANGED <<sessions, sessions_seq, session_photos, files, clock,
                 request, response, photo_vars, returned_ids>>

NextValidator == call_validate

SpecValidator == InitValidator /\ [][NextValidator]_vars

(***************************************************************************)
(* Sessions and their photos: sessions are created, revised and deleted    *)
(* while photos are uploaded, listed and deleted.  Another request may be  *)
(* answered between the existence check of an upload and its loop.         *)
(***************************************************************************)
NextAttachments ==
  \/ \E id \in RevisedIds : update_session(id, RevisedPayload)
  \/ \E id \in RevisedIds : delete_session(id)
  \/ \E id \in PhotoSessionIds, form \in Forms :
       /\ upload_loop(id, form.photos, LoopStart).drawn <= MaxFiles
       /\ upload_photos_check(id, form)
  \/ upload_photos_store
  \/ connection_collected
  \/ \E id \in PhotoSessionIds, photo_id \in PhotoIds :
       delete_photo(id, photo_id)
  \/ \E id \in PhotoSessionIds : get_session_photos(id)

SpecAttachments == Init /\ [][NextAttachments]_vars

(***************************************************************************)
(* Identifiers: sessions are created, given a photo, deleted and created   *)
(* again.                                                                  *)
(***************************************************************************)
NextIds ==
  \/ sessions_seq < NumSamples + MaxRecreates /\ create_session(BasePayload)
  \/ \E id \in RecreatedIds : delete_session(id)
  \/ \E id \in RecreatedIds :
       /\ uuids_drawn < MaxFiles
       /\ upload_photos_check(id, [has_photos |-> TRUE, photos |-> <<Png>>])
  \/ upload_photos_store
  \/ \E id \in RecreatedIds : get_session_photos(id)

SpecIds == Init /\ [][NextIds]_vars

(***************************************************************************)
(* Coordinates: sessions are created with a latitude and a longitude and   *)
(* the sessions are listed.                                                *)
(***************************************************************************)
NextCoordinates ==
  \/ \E data \in CoordinatePayloads :
       sessions_seq < NumSamples + MaxCreates /\ create_session(data)
  \/ get_sessions

SpecCoordinates == Init /\ [][NextCoordinates]_vars

(***************************************************************************)
(* The data model of a session record, and what the validator is to        *)
(* accept, as the specification states them.                               *)
(***************************************************************************)
\* the calendar day a stored session_date denotes
DayOf(text) == strptime_Ymd(text).dt.ord

TextWithin(x, maxLen) ==
  x.t = "str" /\ Len(Strip(x.s)) >= 2 /\ Len(Strip(x.s)) <= maxLen

\* a participant count or duration given as a number or as a numeric string
IsWholeNumber(x) == x.t = "int" \/ (x.t = "str" /\ PyInt(x).ok)

OptionalCoordinateOk(x, limit) ==
  \/ x \in {Absent, None}
  \/ /\ x.t \in {"int", "float", "str"}
     /\ PyFloat(x).ok
     /\ PyFloat(x).n >= -limit * FloatScale
     /\ PyFloat(x).n <= limit * FloatScale

\* the constraints of SessionRecord on the fields of a mapping
SatisfiesEveryRule(data, now) ==
  /\ TextWithin(data["school_name"], 100)
  /\ TextWithin(data["session_type"], 50)
  /\ TextWithin(data["location"], 100)
  /\ TextWithin(data["activator"], 50)
  /\ ActivatorPattern(Strip(data["activator"].s))
  /\ InYearGroups(data["year_group"])
  /\ IsWholeNumber(data["male_participants"])
  /\ IsWholeNumber(data["female_participants"])
  /\ PyInt(data["male_participants"]).n \in 0..MaxParticipants
  /\ PyInt(data["female_participants"]).n \in 0..MaxParticipants
  /\ PyInt(data["male_participants"]).n + PyInt(data["female_participants"]).n
       \in 1..MaxTotalParticipants
  /\ IsWholeNumber(data["session_duration"])
  /\ PyInt(data["session_duration"]).n \in 1..MaxDurationMinutes
  /\ data["session_date"].t = "str"
  /\ strptime_Ymd(data["session_date"].s).ok
  /\ DayOf(data["session_date"].s) >= MinSessionDate.ord
  /\ DayOf(data["session_date"].s) <= now.ord
  /\ \/ data["teacher_feedback"] \in {Absent, None}
     \/ /\ data["teacher_feedback"].t = "str"
        /\ Len(data["teacher_feedback"].s) <= MaxFeedbackLen
  /\ OptionalCoordinateOk(data["latitude"], 90)
  /\ OptionalCoordinateOk(data["longitude"], 180)

\* a stored row read back as a mapping
RowAsData(r) == [f \in Fields |-> r[f]]

Contains(errors, e) == \E i \in 1..Len(errors) : errors[i] = e
Occurrences(errors, e) == Cardinality({i \in 1..Len(errors) : errors[i] = e})

(***************************************************************************)
(* C1.  Every record in the sessions store satisfies all constraints of    *)
(* the SessionRecord data model, in every state reachable from init_db by  *)
(* create, update and delete requests, the rows init_db inserts included.  *)
(***************************************************************************)
C1_StoredRecordsSatisfyModel ==
  \A r \in sessions : SatisfiesEveryRule(RowAsData(r), clock)

(***************************************************************************)
(* C2.  When validate_session_data returns a non-empty list for a create   *)
(* or update request, the sessions store is left as it was and the         *)
(* response carries success = false and that full list.                    *)
(***************************************************************************)
C2_RejectionLeavesStore ==
  [][(/\ request'.op \in {"create_session", "update_session"}
      /\ validation_errors'.exc = ""
      /\ validation_errors'.errors # <<>>)
     => /\ sessions' = sessions
        /\ sessions_seq' = sessions_seq
        /\ response'.success = FALSE
        /\ response'.errors = validation_errors'.errors]_vars

\* an update of a stored session was refused with two messages
C2_Witness ==
  /\ request.op = "update_session"
  /\ SessionExists(request.session_id)
  /\ validation_errors.exc = ""
  /\ Len(validation_errors.errors) = 2
  /\ response.status = 400
  /\ response.errors = validation_errors.errors

(***************************************************************************)
(* C3.  validate_session_data never raises, whatever the candidate: a      *)
(* wrong-typed field gives messages, and create / update answer it with    *)
(* the validation-error outcome, not the server-error outcome.             *)
(***************************************************************************)
C3_ValidateNeverRaises ==
  /\ validation_errors.exc \in {"", "not called"}
  /\ response.status # 500

(***************************************************************************)
(* C4.  For every candidate that satisfies every rule, counts given as     *)
(* numbers or as numeric strings and one count being the number 0          *)
(* included, validate_session_data returns the empty list.                 *)
(***************************************************************************)
C4_ValidAccepted ==
  (validation_errors # NotCalled /\ SatisfiesEveryRule(request.data, clock))
    => validation_errors = Msgs(<<>>)

(***************************************************************************)
(* C5.  For every candidate in which a mandatory field is absent or a      *)
(* blank string, the result contains "<Field> is required" for the field   *)
(* and no other message about that field.                                  *)
(***************************************************************************)
\* the messages about a mandatory field besides "<Field> is required"
OtherMessagesAbout(field) ==
  CASE field = "school_name" ->
         {"School name must be at least 2 characters long",
          "School name must be less than 100 characters"}
    [] field = "session_type" ->
         {"Session type must be at least 2 characters long",
          "Session type must be less than 50 characters"}
    [] field = "location" ->
         {"Location must be at least 2 characters long",
          "Location must be less than 100 characters"}
    [] field = "activator" ->
         {"Activator name must be at least 2 characters long",
          "Activator name must be less than 50 characters",
          "Activator name can only contain letters, spaces, hyphens, and periods"}
    [] field = "year_group" -> {"Please select a valid year group"}
    [] field = "male_participants" ->
         {"Male participants must be a valid number",
          "Male participants cannot be negative",
          "Male participants seems too high (max 1000)"}
    [] field = "female_participants" ->
         {"Female participants must be a valid number",
          "Female participants cannot be negative",
          "Female participants seems too high (max 1000)"}
    [] field = "session_date" ->
         {"Please provide a valid session date",
          "Session date cannot be in the future",
          "Session date seems too old"}
    [] field = "session_duration" ->
         {"Session duration must be a valid number",
          "Session duration must be greater than 0 minutes",
          "Session duration seems too long (max 8 hours)"}

AbsentOrBlank(x) == x = Absent \/ (x.t = "str" /\ Strip(x.s) = <<>>)

C5_MissingFieldOnlyRequired ==
  (validation_errors # NotCalled /\ validation_errors.exc = "")
    => \A i \in 1..Len(required_fields) :
         AbsentOrBlank(request.data[required_fields[i]])
           => /\ Contains(validation_errors.errors,
                          FieldTitle[required_fields[i]] \o " is required")
              /\ \A e \in OtherMessagesAbout(required_fields[i]) :
                   ~Contains(validation_errors.errors, e)

(***************************************************************************)
(* C6.  When both counts parse as integers, a total-participants message   *)
(* is reported exactly when their sum is not > 0 or is > 2000; when either *)
(* count fails to parse, no total-participants message is reported.        *)
(***************************************************************************)
TotalMessages ==
  {"Total participants must be greater than 0",
   "Total participants seems too high (max 2000)"}

C6_TotalRule ==
  (validation_errors # NotCalled /\ validation_errors.exc = "")
    => LET m == PyInt(GetOr0(request.data, "male_participants"))
           f == PyInt(GetOr0(request.data, "female_participants"))
           reported ==
             \E e \in TotalMessages : Contains(validation_errors.errors, e)
       IN  IF m.ok /\ f.ok
           THEN reported <=> (~(m.n + f.n > 0) \/ m.n + f.n > 2000)
           ELSE ~reported

(***************************************************************************)
(* C7.  At every moment the validator accepts a session_date that is the   *)
(* current calendar day or 2020-01-01, rejects the day after the current   *)
(* day and 2019-12-31, and answers an unparseable session_date with        *)
(* exactly one format message and neither range message.                   *)
(***************************************************************************)
FutureMessage == "Session date cannot be in the future"
TooOldMessage == "Session date seems too old"
FormatMessage == "Please provide a valid session date"

C7_DateBoundaries ==
  (/\ validation_errors # NotCalled
   /\ validation_errors.exc = ""
   /\ request.data["session_date"].t = "str"
   /\ request.data["session_date"].s # <<>>)
    => LET text == request.data["session_date"].s
           errors == validation_errors.errors
           accepted == \A e \in {FutureMessage, TooOldMessage, FormatMessage} :
                         ~Contains(errors, e)
       IN  IF strptime_Ymd(text).ok
           THEN /\ DayOf(text) = clock.ord => accepted
                /\ DayOf(text) = ymd2ord(2020, 1, 1) => accepted
                /\ DayOf(text) = clock.ord + 1 => Contains(errors, FutureMessage)
                /\ DayOf(text) = ymd2ord(2019, 12, 31)
                     => Contains(errors, TooOldMessage)
           ELSE /\ Occurrences(errors, FormatMessage) = 1
                /\ ~Contains(errors, FutureMessage)
                /\ ~Contains(errors, TooOldMessage)

\* at midnight sharp a session dated today was accepted
C7_Witness ==
  /\ request.op = "validate"
  /\ clock.hour = 0
  /\ request.data["session_date"] = S(Padded(clock.ord))
  /\ validation_errors = Msgs(<<>>)

(***************************************************************************)
(* C8.  The recent total returned by get_stats is the sum of the           *)
(* participants of exactly the records dated in the 7 days D-6 .. D, D     *)
(* being the current date: records dated D-7 or earlier, or after D,       *)
(* contribute nothing.                                                     *)
(***************************************************************************)
RowsDatedIn(days) == {r \in sessions : DayOf(r.session_date.s) \in days}

C8_RecentTotalWindow ==
  [][(request'.op = "get_stats" /\ get_stats(0))
     => response'.recent_participants
          = SumParticipants(RowsDatedIn((clock.ord - 6) .. clock.ord))]_vars

(***************************************************************************)
(* C9.  Every get_stats call returns 7 entries dated with the 7            *)
(* consecutive calendar days that end at the current date, ascending, each *)
(* labelled with the weekday of its own date, also when midnight passes    *)
(* between two readings of the clock inside the call.                      *)
(***************************************************************************)
C9_SevenConsecutiveDays ==
  [][(request'.op = "get_stats" /\ \E tickAt \in TickPoints : get_stats(tickAt))
     => LET daily == response'.daily_stats
        IN  /\ Len(daily) = 7
            /\ \A i \in 1..6 : DayOf(daily[i + 1].date) = DayOf(daily[i].date) + 1
            /\ DayOf(daily[7].date) \in {clock.ord, clock'.ord}
            /\ \A i \in 1..7 :
                 daily[i].day = strftime_a(DateTime(DayOf(daily[i].date), 0))]_vars

(***************************************************************************)
(* C10.  For each day E of the 7-day window, the daily entry for E         *)
(* returned by get_stats is the sum of the participants of all stored      *)
(* records whose session_date denotes E, and 0 when there is none.         *)
(***************************************************************************)
C10_DailyEntrySumsDay ==
  [][(request'.op = "get_stats" /\ get_stats(0))
     => \A E \in (clock.ord - 6) .. clock.ord :
          \E i \in 1..Len(response'.daily_stats) :
            /\ DayOf(response'.daily_stats[i].date) = E
            /\ response'.daily_stats[i].participants
                 = SumParticipants(RowsDatedIn({E}))]_vars

(***************************************************************************)
(* C11.  After a delete_session(id) that reports success for a session     *)
(* that has photos, table session_photos holds no row of session id and    *)
(* none of the files of those rows is on disk; the rows and the files of   *)
(* every other session are as before.                                      *)
(***************************************************************************)
PhotosOf(id) == {p \in session_photos : p.session_id = id}

C11_DeleteSessionCascades ==
  [][\A id \in RevisedIds :
       (/\ request'.op = "delete_session"
        /\ delete_session(id)
        /\ response'.success
        /\ PhotosOf(id) # {})
       => /\ \A p \in session_photos' : p.session_id # id
          /\ \A p \in PhotosOf(id) : p.file_path \notin files'
          /\ session_photos' \ PhotosOf(id) = session_photos \ PhotosOf(id)
          /\ \A p \in session_photos \ PhotosOf(id) :
               p.file_path \in files <=> p.file_path \in files']_vars

(***************************************************************************)
(* C12.  update_session(id, record), for a record the validator accepts,   *)
(* and delete_session(id) answer 404 'not found', not success, when no     *)
(* session has that id, and then leave the store as it was; they report    *)
(* success only when the session existed.                                  *)
(***************************************************************************)
NotFoundOutcome ==
  /\ response'.status = 404
  /\ ~response'.success
  /\ sessions' = sessions
  /\ sessions_seq' = sessions_seq
  /\ session_photos' = session_photos
  /\ files' = files

C12_MissingSessionNotFound ==
  [][\A id \in RequestIds :
       /\ (/\ request'.op = "update_session"
           /\ \E data \in Payloads : update_session(id, data)
           /\ validation_errors' = [exc |-> "", errors |-> <<>>])
          => /\ response'.success => SessionExists(id)
             /\ ~SessionExists(id) => NotFoundOutcome
       /\ (request'.op = "delete_session" /\ delete_session(id))
          => /\ response'.success => SessionExists(id)
             /\ ~SessionExists(id) => NotFoundOutcome]_vars

(***************************************************************************)
(* C13.  After an upload_photos request that reports a file of a type not  *)
(* allowed or a file over the size limit, every file the request wrote     *)
(* that is still on disk has a committed session_photos row, wherever the  *)
(* offending file stands in the request.                                   *)
(***************************************************************************)
RefusedFileReply(reply) ==
  /\ reply.status = 400
  /\ \E file \in Range(upload.files.photos) :
       reply.errors \in
         {<<"File type not allowed for " \o Text(file.filename)>>,
          <<"File " \o Text(file.filename) \o " is too large (max 5MB)">>}

C13_FailedUploadLeavesNoOrphan ==
  [][(upload.pc = "checked" /\ upload_photos_store /\ RefusedFileReply(response'))
     => \A path \in files' \ files :
          \E p \in session_photos' : p.file_path = path]_vars

(***************************************************************************)
(* C14.  upload_photos commits session_photos rows only for a session that *)
(* is in table sessions at the moment of the commit.  An upload to an id   *)
(* that is not in the table is answered 404 'not found' and writes neither *)
(* a file nor a row, also when the session is deleted by a delete_session  *)
(* that runs between the existence check of the upload and its commit.     *)
(***************************************************************************)
NothingWritten ==
  /\ response'.status = 404
  /\ files' = files
  /\ session_photos' = session_photos

C14_PhotoOnlyForExistingSession ==
  [][/\ \A id \in PhotoSessionIds :
          (/\ request'.op = "upload_photos"
           /\ upload.pc = "idle"
           /\ ~SessionExists(id)
           /\ \E form \in Forms : upload_photos_check(id, form))
          => NothingWritten /\ upload'.pc = "idle"
     /\ (upload.pc = "checked" /\ upload_photos_store)
          => /\ session_photos' # session_photos
                  => SessionExists(upload.session_id)
             /\ ~SessionExists(upload.session_id) => NothingWritten]_vars

(***************************************************************************)
(* C15.  A successful update_session(id, record) replaces the mutable      *)
(* fields of the one row with that id: the row keeps its id and its        *)
(* date_created, every other row of sessions is as before, and so are the  *)
(* session_photos rows and the files.                                      *)
(***************************************************************************)
C15_UpdateKeepsIdentity ==
  [][\A id \in RevisedIds :
       (/\ request'.op = "update_session"
        /\ update_session(id, RevisedPayload)
        /\ response'.success)
       => \E old \in sessions, new \in sessions' :
            /\ old.id = id
            /\ new.id = id
            /\ new.date_created = old.date_created
            /\ new.school_name = RevisedPayload["school_name"]
            /\ sessions' \ {new} = sessions \ {old}
            /\ session_photos' = session_photos
            /\ files' = files]_vars

\* a session that has a photo on disk has just been revised, some time
\* after it was created
C15_Witness ==
  /\ request.op = "update_session"
  /\ response.success
  /\ \E r \in sessions :
       /\ r.id = request.session_id
       /\ r.school_name = RevisedPayload["school_name"]
       /\ r.date_created # clock
  /\ \E p \in session_photos :
       p.session_id = request.session_id /\ p.file_path \in files

(***************************************************************************)
(* C16.  When no stored record is dated after the current date, the recent *)
(* total a get_stats call returns equals the sum of the participants of    *)
(* the 7 daily entries the same call returns.                              *)
(***************************************************************************)
RECURSIVE SumDaily(_)
SumDaily(daily) ==
  IF daily = <<>> THEN 0
  ELSE Head(daily).participants + SumDaily(Tail(daily))

C16_RecentTotalIsSumOfDaily ==
  [][(/\ request'.op = "get_stats"
      /\ get_stats(0)
      /\ \A r \in sessions : DayOf(r.session_date.s) <= clock.ord)
     => response'.recent_participants = SumDaily(response'.daily_stats)]_vars

(***************************************************************************)
(* C17.  In every state reached from init_db by requests under a clock     *)
(* that never moves backwards, no row of sessions has a session_date later *)
(* than the current calendar date: the statistics query, which has no      *)
(* upper bound, never meets a record dated in the future.                  *)
(***************************************************************************)
C17_NoFutureRecord ==
  \A r \in sessions : DayOf(r.session_date.s) <= clock.ord

\* a record dated with the current day has just been stored, on a day after
\* the day the server was started
C17_Witness ==
  /\ request.op \in {"create_session", "update_session"}
  /\ response.success
  /\ clock.ord > StartDay
  /\ \E r \in sessions :
       r.id > NumSamples /\ DayOf(r.session_date.s) = clock.ord

(***************************************************************************)
(* C18.  The session_id a successful create_session returns differs from   *)
(* every session_id an earlier create_session returned, also when that     *)
(* session has been deleted since, and from the id of every row of         *)
(* sessions; so no session_photos row left behind for a deleted session    *)
(* belongs to the new session.                                             *)
(***************************************************************************)
C18_IdsNeverReused ==
  [][(/\ request'.op = "create_session"
      /\ create_session(BasePayload)
      /\ response'.success)
     => /\ response'.session_id \notin returned_ids
        /\ \A r \in sessions : r.id # response'.session_id
        /\ \A p \in session_photos : p.session_id # response'.session_id]_vars

\* a session has just been created after an earlier created session was
\* deleted, whose photo row is still in the table
C18_Witness ==
  /\ request.op = "create_session"
  /\ response.success
  /\ \E id \in returned_ids :
       /\ id # response.session_id
       /\ ~SessionExists(id)
       /\ \E p \in session_photos : p.session_id = id

(***************************************************************************)
(* C19.  An upload_photos request that reports failure commits none of the *)
(* session_photos rows of the files it processed before the failure, and   *)
(* a list of the session's photos taken afterwards shows exactly the rows  *)
(* the table held before the request.                                      *)
(***************************************************************************)
C19_FailedUploadCommitsNothing ==
  [][/\ (upload.pc = "checked" /\ upload_photos_store /\ ~response'.success)
        => /\ session_photos' = session_photos
           /\ photos_seq' = photos_seq
     /\ \A id \in PhotoSessionIds :
          (request'.op = "get_session_photos" /\ get_session_photos(id))
          => /\ Len(response'.photos) = Cardinality(PhotosOf(id))
             /\ \A p \in PhotosOf(id) :
                  \E i \in 1..Len(response'.photos) :
                    /\ response'.photos[i].id = p.id
                    /\ response'.photos[i].filename = p.filename]_vars

\* the one photo of a session is listed while the connection of a failed
\* upload still holds the INSERT for the file it had saved before it failed
C19_Witness ==
  /\ request.op = "get_session_photos"
  /\ db_locked
  /\ photos_seq = 1
  /\ Len(response.photos) = 1
  /\ \E path \in files : \A p \in session_photos : p.file_path # path

(***************************************************************************)
(* C20.  When create_session accepts a payload whose latitude and          *)
(* longitude are present and in range, the new row holds exactly those     *)
(* coordinates and the list of sessions that follows returns them for the  *)
(* new record; this includes the value 0 of either coordinate, which is    *)
(* never stored as absent.                                                 *)
(***************************************************************************)
CoordinateGiven(x, limit) ==
  x \notin {Absent, None} /\ PyFloat(x).ok /\ OptionalCoordinateOk(x, limit)

BothCoordinatesGiven(data) ==
  CoordinateGiven(data["latitude"], 90) /\ CoordinateGiven(data["longitude"], 180)

HasCoordinatesOf(r, data) ==
  /\ r.latitude = F(PyFloat(data["latitude"]).n)
  /\ r.longitude = F(PyFloat(data["longitude"]).n)

C20_CoordinatesPersisted ==
  [][/\ \A data \in CoordinatePayloads :
          (/\ request'.op = "create_session"
           /\ BothCoordinatesGiven(data)
           /\ create_session(data)
           /\ response'.success)
          => \E r \in sessions' :
               r.id = response'.session_id /\ HasCoordinatesOf(r, data)
     /\ (/\ request.op = "create_session"
         /\ response.success
         /\ BothCoordinatesGiven(request.data)
         /\ request'.op = "get_sessions"
         /\ get_sessions)
        => \E i \in 1..Len(response'.sessions) :
             /\ response'.sessions[i].id = response.session_id
             /\ HasCoordinatesOf(response'.sessions[i], request.data)]_vars

=============================================================================
